---- MODULE Spec2Model ----
(***************************************************************************)
(* Persistence layer of nbb_scraper (src/nbb/db_manager.py): the           *)
(* psycopg2 connection pool POOL, the context manager DatabaseManager      *)
(* (__enter__/__exit__), create_tables and the five insert_* writers,      *)
(* against a PostgreSQL database with the schema create_tables declares.   *)
(*                                                                         *)
(* Python values: None is the empty set, a value v is the singleton {v}.   *)
(* An item is a function from field names to such values; a field the      *)
(* item does not carry reads as None (ItemAdapter.get).                    *)
(***************************************************************************)
EXTENDS Integers, Sequences, FiniteSets, TLC

VARIABLES
  POOL,      \* the ThreadedConnectionPool: idle and used connection ids, closed
  db,        \* the committed database: schema and the rows of the five tables
  tx,        \* per open connection: the uncommitted changes of its transaction
  shot_seq,  \* the sequence behind shots_table.id (SERIAL); not transactional
  mgr,       \* per worker: the DatabaseManager instance's self.conn, self.cur
  pc,        \* per worker: "out" of any with-block, in its "body", or "raised"
  exc,       \* per worker: the exception in flight inside the with-block
  hard,      \* per worker: a writer raised a hard failure in the current scope
  accepted,  \* per worker: keys of the rows the current scope's writes stored
  scopes,    \* number of with-blocks entered so far
  calls,     \* number of create_tables / insert_* calls made so far
  last,      \* the step just taken and what its caller observed
  limit,     \* how many with-blocks and calls this run makes at most
  overlap    \* per worker: the workers whose with-block ran beside its own

vars == <<POOL, db, tx, shot_seq, mgr, pc, exc, hard, accepted, scopes, calls,
          last, limit, overlap>>

\* ---------------------------------------------------------------- bounds

MaxScopes == 2
MaxCalls == 3

\* ------------------------------------------------------- program constants

minconn == 1
maxconn == 32

Workers == {"w1"}

\* ------------------------------------------------------------ Python values

None == {}

Some(v) == {v}

The(s) == CHOOSE x \in s : TRUE

\* `not x` is false for None, 0 and the empty string.
TruthyInt(x) == x # None /\ x # Some(0)

TruthyStr(x) == x # None /\ x # Some("")

\* ItemAdapter(item).get(field): the field's value, None when the item has none.
Get(item, field) == IF field \in DOMAIN item THEN item[field] ELSE None

\* ------------------------------------------------------------------ schema

TableNames ==
  {"teams_table", "players_table", "player_teams_by_season_table",
   "games_table", "shots_table"}

NoTx == [schema |-> {}, teams |-> {}, players |-> {}, links |-> {},
         games |-> {}, shots |-> {}]

Ids(rows) == {r.id : r \in rows}

LinkKey(r) == <<r.player_id, r.player_team_id, r.season>>

\* What a statement on a connection sees: the committed rows and the
\* transaction's own changes; an updated game row hides the committed one.
Merge(d, t) ==
  [schema  |-> d.schema \cup t.schema,
   teams   |-> d.teams \cup t.teams,
   players |-> d.players \cup t.players,
   links   |-> d.links \cup t.links,
   games   |-> {g \in d.games : g.id \notin Ids(t.games)} \cup t.games,
   shots   |-> d.shots \cup t.shots]

\* RefOK for a column declared without REFERENCES: any value passes.
RefUnchecked(v, keys) == TRUE

\* A column that REFERENCES another table holds NULL or a stored key.
RefOK(v, keys) == v = None \/ v \in keys

\* ------------------------------------------------ the statements (PostgreSQL)
\* Each statement reads what the connection sees (vis), and yields the error
\* the driver raises ("none" when it succeeds), the transaction's changes
\* afterwards and the value of the shots sequence afterwards.

\* SqlCreateTables with IF NOT EXISTS left out: an existing table is an error.
SqlCreateTablesPlain(vis, t, seq) ==
  IF vis.schema # {}
    THEN [err |-> "DuplicateTable", tx |-> t, seq |-> seq]
    ELSE [err |-> "none", tx |-> [t EXCEPT !.schema = TableNames], seq |-> seq]

\* CREATE TABLE IF NOT EXISTS, five times in one execute().
SqlCreateTables(vis, t, seq) ==
  [err |-> "none",
   tx  |-> [t EXCEPT !.schema = t.schema \cup (TableNames \ vis.schema)],
   seq |-> seq]

\* SqlInsertTeam with ON CONFLICT (id) DO UPDATE: the stored row is rewritten.
SqlInsertTeamOverwrites(vis, t, seq, row) ==
  IF "teams_table" \notin vis.schema
    THEN [err |-> "UndefinedTable", tx |-> t, seq |-> seq]
  ELSE IF row.id = None
    THEN [err |-> "NotNullViolation", tx |-> t, seq |-> seq]
  ELSE [err |-> "none", tx |-> [t EXCEPT !.teams = @ \cup {row}], seq |-> seq]

\* INSERT INTO teams_table ... ON CONFLICT (id) DO NOTHING
SqlInsertTeam(vis, t, seq, row) ==
  IF "teams_table" \notin vis.schema
    THEN [err |-> "UndefinedTable", tx |-> t, seq |-> seq]
  ELSE IF row.id = None
    THEN [err |-> "NotNullViolation", tx |-> t, seq |-> seq]
  ELSE IF row.id \in Ids(vis.teams)
    THEN [err |-> "none", tx |-> t, seq |-> seq]
  ELSE [err |-> "none", tx |-> [t EXCEPT !.teams = @ \cup {row}], seq |-> seq]

\* INSERT INTO players_table ... ON CONFLICT (id) DO NOTHING
SqlInsertPlayer(vis, t, seq, row) ==
  IF "players_table" \notin vis.schema
    THEN [err |-> "UndefinedTable", tx |-> t, seq |-> seq]
  ELSE IF row.id = None
    THEN [err |-> "NotNullViolation", tx |-> t, seq |-> seq]
  ELSE IF row.id \in Ids(vis.players)
    THEN [err |-> "none", tx |-> t, seq |-> seq]
  ELSE [err |-> "none", tx |-> [t EXCEPT !.players = @ \cup {row}], seq |-> seq]

\* INSERT INTO player_teams_by_season_table ...
\* ON CONFLICT (player_id, player_team_id, season) DO NOTHING;
\* the three key columns are NOT NULL; player_id and player_team_id REFERENCE
\* players_table and teams_table.
SqlInsertLink(vis, t, seq, row) ==
  IF "player_teams_by_season_table" \notin vis.schema
    THEN [err |-> "UndefinedTable", tx |-> t, seq |-> seq]
  ELSE IF None \in {row.player_id, row.player_team_id, row.season}
    THEN [err |-> "NotNullViolation", tx |-> t, seq |-> seq]
  ELSE IF LinkKey(row) \in {LinkKey(r) : r \in vis.links}
    THEN [err |-> "none", tx |-> t, seq |-> seq]
  ELSE IF ~(/\ row.player_id \in Ids(vis.players)
            /\ row.player_team_id \in Ids(vis.teams))
    THEN [err |-> "ForeignKeyViolation", tx |-> t, seq |-> seq]
  ELSE [err |-> "none", tx |-> [t EXCEPT !.links = @ \cup {row}], seq |-> seq]

\* SqlUpsertGame with home_team_score left out of the SET list: on a conflict
\* the stored home score stays.
SqlUpsertGameKeepsScore(vis, t, seq, row) ==
  IF "games_table" \notin vis.schema
    THEN [err |-> "UndefinedTable", tx |-> t, seq |-> seq]
  ELSE IF ~(/\ RefOK(row.home_team_id, Ids(vis.teams))
            /\ RefOK(row.away_team_id, Ids(vis.teams)))
    THEN [err |-> "ForeignKeyViolation", tx |-> t, seq |-> seq]
  ELSE LET old == {g \in vis.games : g.id = row.id}
           new == IF old = {} THEN row
                  ELSE [row EXCEPT !.home_team_score = The(old).home_team_score]
       IN [err |-> "none",
           tx  |-> [t EXCEPT !.games = {g \in @ : g.id # row.id} \cup {new}],
           seq |-> seq]

\* INSERT INTO games_table ... ON CONFLICT (id) DO UPDATE SET every other
\* column = EXCLUDED.column; home_team_id and away_team_id REFERENCE teams_table.
SqlUpsertGame(vis, t, seq, row) ==
  IF "games_table" \notin vis.schema
    THEN [err |-> "UndefinedTable", tx |-> t, seq |-> seq]
  ELSE IF row.id = None
    THEN [err |-> "NotNullViolation", tx |-> t, seq |-> seq]
  ELSE IF ~(/\ RefOK(row.home_team_id, Ids(vis.teams))
            /\ RefOK(row.away_team_id, Ids(vis.teams)))
    THEN [err |-> "ForeignKeyViolation", tx |-> t, seq |-> seq]
  ELSE [err |-> "none",
        tx  |-> [t EXCEPT !.games = {g \in @ : g.id # row.id} \cup {row}],
        seq |-> seq]

\* SqlInsertShot with a uniqueness rule over the shot's values: a shot equal to
\* a stored one is dropped.
SqlInsertShotDedup(vis, t, seq, vals) ==
  IF "shots_table" \notin vis.schema
    THEN [err |-> "UndefinedTable", tx |-> t, seq |-> seq]
  ELSE IF ~(/\ RefOK(vals.player_id, Ids(vis.players))
            /\ RefOK(vals.game_id, Ids(vis.games))
            /\ RefOK(vals.team_id, Ids(vis.teams)))
    THEN [err |-> "ForeignKeyViolation", tx |-> t, seq |-> seq + 1]
  ELSE IF \E r \in vis.shots : [f \in DOMAIN vals |-> r[f]] = vals
    THEN [err |-> "none", tx |-> t, seq |-> seq + 1]
  ELSE [err |-> "none",
        tx  |-> [t EXCEPT !.shots = @ \cup {[id |-> Some(seq + 1)] @@ vals}],
        seq |-> seq + 1]

\* INSERT INTO shots_table (...) VALUES (...): the id column defaults to the
\* next value of its sequence, which a failed statement does not give back.
SqlInsertShot(vis, t, seq, vals) ==
  IF "shots_table" \notin vis.schema
    THEN [err |-> "UndefinedTable", tx |-> t, seq |-> seq]
  ELSE IF Some(seq + 1) \in Ids(vis.shots)
    THEN [err |-> "UniqueViolation", tx |-> t, seq |-> seq + 1]
  ELSE IF ~(/\ RefOK(vals.player_id, Ids(vis.players))
            /\ RefOK(vals.game_id, Ids(vis.games))
            /\ RefOK(vals.team_id, Ids(vis.teams)))
    THEN [err |-> "ForeignKeyViolation", tx |-> t, seq |-> seq + 1]
  ELSE [err |-> "none",
        tx  |-> [t EXCEPT !.shots = @ \cup {[id |-> Some(seq + 1)] @@ vals}],
        seq |-> seq + 1]

\* ------------------------------------------------------------------ the pool

\* A connection id neither idle nor in use: the pool opens a new connection.
NewConn(P) == CHOOSE c \in 1..maxconn :
                /\ c \notin P.idle \cup P.used
                /\ \A d \in 1..(c - 1) : d \in P.idle \cup P.used

\* Getconn for a pool that forgets to move the idle connection it hands out
\* to the used ones.
GetconnKeepsIdle(P) ==
  IF P.closed
    THEN [err |-> "PoolError", conn |-> None, pool |-> P]
  ELSE IF P.idle # {}
    THEN [err |-> "none", conn |-> Some(The(P.idle)), pool |-> P]
  ELSE IF Cardinality(P.used) = maxconn
    THEN [err |-> "PoolError", conn |-> None, pool |-> P]
  ELSE [err |-> "none", conn |-> Some(NewConn(P)),
        pool |-> [P EXCEPT !.used = @ \cup {NewConn(P)}]]

\* POOL.getconn(): PoolError when the pool is closed; an idle connection if
\* there is one; PoolError when maxconn connections are in use; a new
\* connection otherwise.  It never waits.
Getconn(P) ==
  IF P.closed
    THEN [err |-> "PoolError", conn |-> None, pool |-> P]
  ELSE IF P.idle # {}
    THEN LET c == The(P.idle)
         IN [err |-> "none", conn |-> Some(c),
             pool |-> [P EXCEPT !.idle = @ \ {c}, !.used = @ \cup {c}]]
  ELSE IF Cardinality(P.used) = maxconn
    THEN [err |-> "PoolError", conn |-> None, pool |-> P]
  ELSE LET c == NewConn(P)
       IN [err |-> "none", conn |-> Some(c),
           pool |-> [P EXCEPT !.used = @ \cup {c}]]

\* POOL.putconn(conn): kept idle while fewer than minconn are idle, closed
\* otherwise; in both cases no longer in use.
Putconn(P, c) ==
  [P EXCEPT !.idle = IF Cardinality(P.idle) < minconn THEN @ \cup {c} ELSE @,
            !.used = @ \ {c}]

\* POOL.closeall(): PoolError when the pool is closed already; otherwise every
\* connection, idle or in use, is closed and the pool is marked closed.
Closeall(P) ==
  IF P.closed
    THEN [err |-> "PoolError", pool |-> P]
    ELSE [err |-> "none", pool |-> [P EXCEPT !.closed = TRUE]]

Visible(c) == Merge(db, tx[c])

\* The keys of the rows a transaction has inserted or updated and not yet
\* committed: the database holds their row locks until it ends.
Pending(t) ==
  {<<"teams", r.id>> : r \in t.teams} \cup {<<"players", r.id>> : r \in t.players}
  \cup {<<"links", LinkKey(r)>> : r \in t.links}
  \cup {<<"games", r.id>> : r \in t.games}

\* Locked for a database that lets two transactions insert one key at once.
NeverLocked(c, k) == FALSE

\* INSERT ... ON CONFLICT on connection c waits while another connection's open
\* transaction holds a row with the same key.
Locked(c, k) == \E d \in DOMAIN tx \ {c} : k \in Pending(tx[d])

\* ------------------------------------------------------------------- inputs
\* The records handed to the writers.  "LAL", player 1 and game 1 may be
\* stored; team "BOS", player 2 and game 9 never are.

TeamItems ==
  {[id |-> Some("LAL"), name |-> Some(n), logo |-> Some("http://x")] :
      n \in {"Lakers", "LA"}}
  \cup {[id |-> Some(""), name |-> Some("Lakers"), logo |-> None],
        [name |-> Some("Lakers"), logo |-> None]}

PlayerItems ==
  {[player_id |-> Some(1), player_name |-> Some(n), player_icon_url |-> None] :
      n \in {"Ana", "Bia"}}
  \cup {[player_id |-> Some(0), player_name |-> Some("Ana"),
         player_icon_url |-> None],
        [player_name |-> Some("Ana")]}

LinkItems ==
  {[player_id |-> Some(1), player_team_id |-> Some("LAL"),
    season |-> Some("2023"), player_number |-> Some(n)] : n \in {"7", "9"}}
  \cup {[player_id |-> Some(1), player_team_id |-> Some("LAL"),
         season |-> Some(""), player_number |-> Some("7")],
        [player_id |-> Some(1), player_team_id |-> Some("LAL"),
         player_number |-> Some("7")],
        [player_id |-> Some(2), player_team_id |-> Some("LAL"),
         season |-> Some("2023"), player_number |-> Some("7")],
        [player_id |-> Some(1), player_team_id |-> Some("BOS"),
         season |-> Some("2023"), player_number |-> Some("7")]}

Game80 ==
  [game_id |-> Some(1), game_date |-> Some("2023-10-01"),
   game_time |-> Some("19:00"), home_team_id |-> Some("LAL"),
   away_team_id |-> None, home_team_score |-> Some(80),
   away_team_score |-> Some(70), round |-> Some("1"), stage |-> Some("regular"),
   season |-> Some("2023"), arena |-> Some("A"), link |-> Some("http://g/1")]

Game90 ==
  [game_id |-> Some(1), game_date |-> Some("2023-10-02"),
   game_time |-> Some("20:00"), home_team_id |-> None,
   away_team_id |-> Some("LAL"), home_team_score |-> Some(90),
   away_team_score |-> Some(75), round |-> Some("2"), stage |-> Some("playoffs"),
   season |-> Some("2024"), arena |-> Some("B"), link |-> Some("http://g/1b")]

\* The records of the scenario insert_game({id:1, home_score:80, ...}).
ScenarioGames ==
  {[id |-> Some(1), home_score |-> Some(s), away_score |-> Some(70),
    season |-> Some("2023")] : s \in {80, 90}}

GameItems ==
  {Game80, Game90} \cup ScenarioGames
  \cup {[Game80 EXCEPT !.game_id = Some(0)],
        [Game80 EXCEPT !.game_id = Some(2), !.home_team_id = Some("BOS")]}

Shot1 ==
  [player_id |-> Some(1), game_id |-> Some(1), team_id |-> Some("LAL"),
   shot_quarter |-> Some("1"), shot_time |-> Some("09:30"),
   shot_type |-> Some("3PT"), shot_x_location |-> Some(10),
   shot_y_location |-> Some(20)]

ShotItems ==
  {Shot1,
   [Shot1 EXCEPT !.player_id = Some(2)],
   [Shot1 EXCEPT !.game_id = Some(9)],
   [Shot1 EXCEPT !.team_id = Some("BOS")],
   [Shot1 EXCEPT !.player_id = Some(0)],
   [f \in DOMAIN Shot1 \ {"team_id"} |-> Shot1[f]]}

\* ------------------------------------------------------------ the database
\* The database outlives the process: at start it may have no tables, empty
\* tables, or rows stored by earlier runs.

NoSchemaDb == NoTx

EmptyDb == [NoTx EXCEPT !.schema = TableNames]

SeededDb ==
  [EmptyDb EXCEPT
     !.teams = {[id |-> Some("LAL"), name |-> Some("Lakers"), logo |-> Some("http://x")]},
     !.players = {[id |-> Some(1), player_name |-> Some("Ana"),
                   player_icon_url |-> None]},
     !.games = {[id |-> Some(1)] @@ [f \in DOMAIN Game80 \ {"game_id"} |-> Game80[f]]}]

InitialDbs == {NoSchemaDb, EmptyDb, SeededDb}

\* --------------------------------------------------------------- the steps

Conn(w) == The(mgr[w].conn)

Step(op, w, res, err, item) ==
  [op |-> op, w |-> w, res |-> res, err |-> err, item |-> item,
   conn |-> mgr[w].conn, inexc |-> exc[w], ret |-> <<>>]

\* DatabaseManager.__enter__, called by `with`: on an exception the body and
\* __exit__ do not run.  fail names the statement that raises after getconn()
\* in this run: none, `self.conn.autocommit = False` or `self.conn.cursor()`.
Enter(w, fail) ==
  /\ pc[w] = "out"
  /\ scopes < limit.scopes
  /\ scopes' = scopes + 1
  /\ LET g == Getconn(POOL)
     IN IF g.err # "none"
          THEN /\ fail = "none"
               /\ last' = Step("enter", w, "raise", g.err, <<>>)
               /\ UNCHANGED <<POOL, tx, mgr, pc, hard, accepted, overlap>>
          ELSE /\ POOL' = g.pool
               /\ tx' = [c \in DOMAIN tx \cup g.conn |->
                           IF c \in DOMAIN tx THEN tx[c] ELSE NoTx]
               /\ IF fail = "none"
                    THEN /\ mgr' = [mgr EXCEPT ![w] = [conn |-> g.conn, cur |-> "open"]]
                         /\ pc' = [pc EXCEPT ![w] = "body"]
                         /\ hard' = [hard EXCEPT ![w] = FALSE]
                         /\ accepted' = [accepted EXCEPT ![w] = {}]
                         /\ overlap' =
                              [v \in DOMAIN overlap |->
                                 IF v = w THEN {u \in DOMAIN pc : pc[u] # "out"}
                                 ELSE IF pc[v] # "out" THEN overlap[v] \cup {w}
                                 ELSE overlap[v]]
                         /\ last' = [Step("enter", w, "ok", "none", <<>>)
                                       EXCEPT !.conn = g.conn]
                    ELSE /\ mgr' = [mgr EXCEPT ![w].conn = g.conn]
                         /\ last' = [Step("enter", w, "raise",
                                          IF fail = "autocommit"
                                            THEN "AutocommitError" ELSE "CursorError",
                                          <<>>)
                                       EXCEPT !.conn = g.conn]
                         /\ UNCHANGED <<pc, hard, accepted, overlap>>
  /\ UNCHANGED <<db, shot_seq, exc, calls, limit>>

\* close_pool(), called by a thread outside its with-blocks: `if POOL` holds
\* for the pool object, so closeall() is called each time.  The server ends the
\* transactions of the connections it closes.
close_pool(w) ==
  /\ pc[w] = "out"
  /\ LET r == Closeall(POOL)
     IN /\ POOL' = r.pool
        /\ tx' = IF r.err = "none" THEN [c \in DOMAIN tx |-> NoTx] ELSE tx
        /\ last' = Step("close_pool", w, IF r.err = "none" THEN "ok" ELSE "raise",
                        r.err, <<>>)
  /\ UNCHANGED <<db, shot_seq, mgr, pc, exc, hard, accepted, scopes, calls,
                 limit, overlap>>

\* A writer on thread w finds its key locked.  When the lock is held by a
\* thread inside its with-block and w's transaction holds rows itself, that
\* thread may be waiting for one of them: the database then ends the deadlock
\* by failing a statement.  Otherwise the writer waits.
Deadlocked(w, k) ==
  /\ Locked(Conn(w), k)
  /\ Pending(tx[Conn(w)]) # {}
  /\ \E v \in DOMAIN pc \ {w} :
       /\ pc[v] = "body"
       /\ mgr[v].conn # mgr[w].conn
       /\ k \in Pending(tx[Conn(v)])

\* The code inside the with-block raises an exception of its own.
BodyRaise(w) ==
  /\ pc[w] = "body"
  /\ pc' = [pc EXCEPT ![w] = "raised"]
  /\ exc' = [exc EXCEPT ![w] = "CallerError"]
  /\ last' = Step("raise", w, "raise", "CallerError", <<>>)
  /\ UNCHANGED <<POOL, db, tx, shot_seq, mgr, hard, accepted, scopes, calls,
                 limit, overlap>>

\* The code inside the with-block catches the exception a call re-raised and
\* goes on.
Catch(w) ==
  /\ pc[w] = "raised"
  /\ pc' = [pc EXCEPT ![w] = "body"]
  /\ exc' = [exc EXCEPT ![w] = "none"]
  /\ last' = Step("catch", w, "ok", "none", <<>>)
  /\ UNCHANGED <<POOL, db, tx, shot_seq, mgr, hard, accepted, scopes, calls,
                 limit, overlap>>

\* ExitCalls for an __exit__ that ends the transaction before it closes the
\* cursor.
ExitCallsCommitFirst(hasCur, hasConn, ok, fail) ==
  LET closing == IF hasCur THEN <<"cur.close">> ELSE <<>>
      ending  == IF ok THEN <<"conn.commit">> ELSE <<"conn.rollback">>
  IN IF ~hasConn THEN closing
     ELSE IF fail \in {"commit", "rollback"} THEN ending
     ELSE IF hasCur /\ fail = "close" THEN ending \o closing
     ELSE ending \o closing \o <<"POOL.putconn">>

\* The driver calls __exit__ makes, in the order it makes them, up to and
\* with the one that raises: hasCur and hasConn are `if self.cur` and
\* `if self.conn`, ok is `exc_type is None`.
ExitCalls(hasCur, hasConn, ok, fail) ==
  LET closing == IF hasCur THEN <<"cur.close">> ELSE <<>>
      ending  == IF ok THEN <<"conn.commit">> ELSE <<"conn.rollback">>
  IN IF hasCur /\ fail = "close" THEN closing
     ELSE IF ~hasConn THEN closing
     ELSE IF fail \in {"commit", "rollback"} THEN closing \o ending
     ELSE closing \o ending \o <<"POOL.putconn">>

\* DatabaseManager.__exit__(exc_type, exc_val, exc_tb), called when the
\* with-block ends, with the exception that escapes it if any.  fail names the
\* driver call that raises in this run: none, cur.close(), conn.commit() or
\* conn.rollback(); on a connection that POOL.closeall() has closed, commit
\* and rollback raise.  __exit__ returns None, so the escaping exception goes
\* on to the caller; an exception raised in __exit__ replaces it.
Exit(w, fail) ==
  /\ pc[w] \in {"body", "raised"}
  /\ fail = "commit" => exc[w] = "none"
  /\ fail = "rollback" => exc[w] # "none"
  /\ LET c == Conn(w)
         gone == fail = "none" /\ POOL.closed
         failing == IF gone
                      THEN (IF exc[w] = "none" THEN "commit" ELSE "rollback")
                      ELSE fail
         closed == mgr[w].cur # "none" /\ failing # "close"
         reached == mgr[w].conn # None /\ failing = "none"
     IN /\ mgr' = [mgr EXCEPT ![w].cur = IF closed THEN "closed" ELSE @]
        /\ IF reached /\ exc[w] = "none"
             THEN db' = Merge(db, tx[c])
             ELSE db' = db
        /\ IF reached
             THEN /\ POOL' = Putconn(POOL, c)
                  /\ tx' = IF c \in POOL'.idle
                             THEN [tx EXCEPT ![c] = NoTx]
                             ELSE [k \in DOMAIN tx \ {c} |-> tx[k]]
             ELSE UNCHANGED <<POOL, tx>>
        /\ last' = [Step("exit", w,
                         IF failing = "none" /\ exc[w] = "none" THEN "ok" ELSE "raise",
                         CASE gone -> "InterfaceError"
                           [] failing = "close" -> "CloseError"
                           [] failing = "commit" -> "CommitError"
                           [] failing = "rollback" -> "RollbackError"
                           [] OTHER -> exc[w],
                         <<>>)
                      EXCEPT !.ret = ExitCalls(mgr[w].cur # "none", mgr[w].conn # None,
                                               exc[w] = "none", failing)]
  /\ pc' = [pc EXCEPT ![w] = "out"]
  /\ exc' = [exc EXCEPT ![w] = "none"]
  /\ UNCHANGED <<shot_seq, hard, accepted, scopes, calls, limit, overlap>>

\* A writer or create_tables returns to the with-block: after the warning
\* about a record it does not store (res "skip"), or after execute() (res
\* "ok"), which leaves the transaction as t and the shots sequence at seq.
Returns(w, op, item, res, t, seq, keys) ==
  /\ tx' = [tx EXCEPT ![Conn(w)] = t]
  /\ shot_seq' = seq
  /\ accepted' = [accepted EXCEPT ![w] = @ \cup keys]
  /\ last' = Step(op, w, res, "none", item)
  /\ UNCHANGED <<pc, exc, hard>>

\* except ...: self.conn.rollback(); logger.error(...); raise
Raises(w, op, item, err, seq) ==
  /\ tx' = [tx EXCEPT ![Conn(w)] = NoTx]
  /\ shot_seq' = seq
  /\ pc' = [pc EXCEPT ![w] = "raised"]
  /\ exc' = [exc EXCEPT ![w] = err]
  /\ hard' = [hard EXCEPT ![w] = TRUE]
  /\ last' = Step(op, w, "raise", err, item)
  /\ UNCHANGED accepted

\* Skips for a writer that treats the missing field as an error: it rolls back
\* and raises.
SkipsRaising(w, op, item) == Raises(w, op, item, "ValueError", shot_seq)

\* logger.warning(...); return
Skips(w, op, item) == Returns(w, op, item, "skip", tx[Conn(w)], shot_seq, {})

\* What a call inside the with-block leaves alone, and the bound on calls.
InBody(w) ==
  /\ pc[w] = "body"
  /\ calls < limit.calls
  /\ calls' = calls + 1
  /\ UNCHANGED <<POOL, db, mgr, scopes, limit, overlap>>

\* try: self.cur.execute(...) finishing as r; except: rollback and re-raise.
\* On a connection that POOL.closeall() has closed, execute() raises.
Executes(w, op, item, r, keys) ==
  IF POOL.closed
    THEN Raises(w, op, item, "InterfaceError", shot_seq)
  ELSE IF r.err = "none"
    THEN Returns(w, op, item, "ok", r.tx, r.seq, keys)
  ELSE Raises(w, op, item, r.err, r.seq)

create_tables(w) ==
  /\ InBody(w)
  /\ Executes(w, "create_tables", <<>>,
              SqlCreateTables(Visible(Conn(w)), tx[Conn(w)], shot_seq), {})

insert_team(w, team_item) ==
  /\ InBody(w)
  /\ LET team_id == Get(team_item, "id")
         name    == Get(team_item, "name")
         logo    == Get(team_item, "logo")
     IN IF ~TruthyStr(team_id)
          THEN Skips(w, "insert_team", team_item)
          ELSE IF Locked(Conn(w), <<"teams", team_id>>)
            THEN /\ Deadlocked(w, <<"teams", team_id>>)
                 /\ Raises(w, "insert_team", team_item, "DeadlockDetected", shot_seq)
          ELSE Executes(w, "insert_team", team_item,
                 SqlInsertTeam(Visible(Conn(w)), tx[Conn(w)], shot_seq,
                               [id |-> team_id, name |-> name, logo |-> logo]),
                 {<<"teams", team_id>>})

insert_player(w, player_item) ==
  /\ InBody(w)
  /\ LET player_id       == Get(player_item, "player_id")
         player_name     == Get(player_item, "player_name")
         player_icon_url == Get(player_item, "player_icon_url")
     IN IF ~TruthyInt(player_id)
          THEN Skips(w, "insert_player", player_item)
          ELSE IF Locked(Conn(w), <<"players", player_id>>)
            THEN /\ Deadlocked(w, <<"players", player_id>>)
                 /\ Raises(w, "insert_player", player_item, "DeadlockDetected", shot_seq)
          ELSE Executes(w, "insert_player", player_item,
                 SqlInsertPlayer(Visible(Conn(w)), tx[Conn(w)], shot_seq,
                                 [id |-> player_id, player_name |-> player_name,
                                  player_icon_url |-> player_icon_url]),
                 {<<"players", player_id>>})

insert_player_team_by_season(w, player_item) ==
  /\ InBody(w)
  /\ LET player_id      == Get(player_item, "player_id")
         player_team_id == Get(player_item, "player_team_id")
         season         == Get(player_item, "season")
         player_number  == Get(player_item, "player_number")
     IN IF ~(TruthyInt(player_id) /\ TruthyStr(player_team_id) /\ TruthyStr(season))
          THEN Skips(w, "insert_player_team_by_season", player_item)
          ELSE IF Locked(Conn(w), <<"links", <<player_id, player_team_id, season>> >>)
            THEN /\ Deadlocked(w, <<"links", <<player_id, player_team_id, season>> >>)
                 /\ Raises(w, "insert_player_team_by_season", player_item, "DeadlockDetected", shot_seq)
          ELSE Executes(w, "insert_player_team_by_season", player_item,
                 SqlInsertLink(Visible(Conn(w)), tx[Conn(w)], shot_seq,
                               [player_id |-> player_id,
                                player_team_id |-> player_team_id,
                                season |-> season,
                                player_number |-> player_number]),
                 {<<"links", <<player_id, player_team_id, season>> >>})

\* The row insert_game passes to execute(): game_id and the eleven other
\* columns, each read from the item's field of the same name.
GameRow(game_item) ==
  [id              |-> Get(game_item, "game_id"),
   game_date       |-> Get(game_item, "game_date"),
   game_time       |-> Get(game_item, "game_time"),
   home_team_id    |-> Get(game_item, "home_team_id"),
   away_team_id    |-> Get(game_item, "away_team_id"),
   home_team_score |-> Get(game_item, "home_team_score"),
   away_team_score |-> Get(game_item, "away_team_score"),
   round           |-> Get(game_item, "round"),
   stage           |-> Get(game_item, "stage"),
   season          |-> Get(game_item, "season"),
   arena           |-> Get(game_item, "arena"),
   link            |-> Get(game_item, "link")]

insert_game(w, game_item) ==
  /\ InBody(w)
  /\ LET game_id == Get(game_item, "game_id")
     IN IF ~TruthyInt(game_id)
          THEN Skips(w, "insert_game", game_item)
          ELSE IF Locked(Conn(w), <<"games", game_id>>)
            THEN /\ Deadlocked(w, <<"games", game_id>>)
                 /\ Raises(w, "insert_game", game_item, "DeadlockDetected", shot_seq)
          ELSE Executes(w, "insert_game", game_item,
                 SqlUpsertGame(Visible(Conn(w)), tx[Conn(w)], shot_seq,
                               GameRow(game_item)),
                 {<<"games", game_id>>})

\* The values insert_shot passes to execute().
ShotVals(shot_item) ==
  [player_id       |-> Get(shot_item, "player_id"),
   game_id         |-> Get(shot_item, "game_id"),
   team_id         |-> Get(shot_item, "team_id"),
   shot_quarter    |-> Get(shot_item, "shot_quarter"),
   shot_time       |-> Get(shot_item, "shot_time"),
   shot_type       |-> Get(shot_item, "shot_type"),
   shot_x_location |-> Get(shot_item, "shot_x_location"),
   shot_y_location |-> Get(shot_item, "shot_y_location")]

insert_shot(w, shot_item) ==
  /\ InBody(w)
  /\ LET player_id == Get(shot_item, "player_id")
         game_id   == Get(shot_item, "game_id")
         team_id   == Get(shot_item, "team_id")
     IN IF ~(TruthyInt(player_id) /\ TruthyInt(game_id) /\ TruthyStr(team_id))
          THEN Skips(w, "insert_shot", shot_item)
          ELSE Executes(w, "insert_shot", shot_item,
                 SqlInsertShot(Visible(Conn(w)), tx[Conn(w)], shot_seq,
                               ShotVals(shot_item)),
                 {<<"shots", Some(shot_seq + 1)>>})

\* A fetchall() result over the rows S: each row once, in an order the server
\* picks.
Orders(S) ==
  {s \in [1..Cardinality(S) -> S] : \A i, j \in 1..Cardinality(S) : i # j => s[i] # s[j]}

\* SELECT DISTINCT g.id FROM games_table g with no WHERE clause.
SqlSelectAllGameIds(vis, season) ==
  IF "games_table" \notin vis.schema
    THEN [err |-> "UndefinedTable", out |-> {}]
    ELSE [err |-> "none", out |-> Orders({<<The(g.id)>> : g \in vis.games})]

\* SELECT DISTINCT g.id FROM games_table g WHERE g.season = %s; the comparison
\* with a NULL, stored or passed, is not true.  out is the set of results
\* fetchall() may give.
SqlSelectGameIds(vis, season) ==
  IF "games_table" \notin vis.schema
    THEN [err |-> "UndefinedTable", out |-> {}]
    ELSE [err |-> "none",
          out |-> Orders({<<The(g.id)>> :
                            g \in {h \in vis.games : /\ season # None
                                                     /\ h.season # None
                                                     /\ h.season = season}})]

\* The read: execute, fetchall, return [row[0] for row in results]; except:
\* log, rollback and re-raise.
get_id_games_by_season(w, season) ==
  /\ InBody(w)
  /\ LET r == SqlSelectGameIds(Visible(Conn(w)), season)
         item == [season |-> season]
     IN IF POOL.closed
          THEN Raises(w, "get_id_games_by_season", item, "InterfaceError", shot_seq)
        ELSE IF r.err # "none"
          THEN Raises(w, "get_id_games_by_season", item, r.err, shot_seq)
        ELSE \E results \in r.out :
               /\ last' = [Step("get_id_games_by_season", w, "ok", "none", item)
                             EXCEPT !.ret = [i \in DOMAIN results |-> results[i][1]]]
               /\ UNCHANGED <<tx, shot_seq, accepted, pc, exc, hard>>

\* ------------------------------------------------------- the specification

\* The state once the module is imported: the pool holds its minconn
\* connection, no DatabaseManager has entered its with-block.  pools are the
\* pools the run starts from, dbs the databases the process may find, ws its
\* threads, lim the size of the run.
FreshPool == [idle |-> {1}, used |-> {}, closed |-> FALSE]

Begin(pools, dbs, ws, lim) ==
  /\ POOL \in pools
  /\ db \in dbs
  /\ tx = [c \in POOL.idle \cup POOL.used |-> NoTx]
  /\ shot_seq = 0
  /\ mgr = [w \in ws |-> [conn |-> None, cur |-> "none"]]
  /\ pc = [w \in ws |-> "out"]
  /\ exc = [w \in ws |-> "none"]
  /\ hard = [w \in ws |-> FALSE]
  /\ accepted = [w \in ws |-> {}]
  /\ scopes = 0
  /\ calls = 0
  /\ last = [op |-> "init", w |-> "w1", res |-> "ok", err |-> "none",
             item |-> <<>>, conn |-> None, inexc |-> "none", ret |-> <<>>]
  /\ limit = lim
  /\ overlap = [w \in ws |-> {}]

Init == Begin({FreshPool}, InitialDbs, Workers, [scopes |-> MaxScopes, calls |-> MaxCalls])

Next ==
  \E w \in Workers :
    \/ Enter(w, "none")
    \/ BodyRaise(w)
    \/ Catch(w)
    \/ \E fail \in {"none", "close", "commit", "rollback"} : Exit(w, fail)
    \/ create_tables(w)
    \/ \E team_item \in TeamItems : insert_team(w, team_item)
    \/ \E player_item \in PlayerItems : insert_player(w, player_item)
    \/ \E player_item \in LinkItems : insert_player_team_by_season(w, player_item)
    \/ \E game_item \in GameItems : insert_game(w, game_item)
    \/ \E shot_item \in ShotItems : insert_shot(w, shot_item)

Spec == Init /\ [][Next]_vars

\* --------------------------------------------------- the read, by season
\* Games of the seasons "2023" and "2024" and of no season, as records for
\* insert_game and as rows stored by earlier runs.
SeasonGames ==
  {[Game80 EXCEPT !.game_id = Some(10)],
   [Game80 EXCEPT !.game_id = Some(11)],
   [Game80 EXCEPT !.game_id = Some(12), !.season = Some("2024")],
   [Game80 EXCEPT !.game_id = Some(13), !.season = None]}

SeasonsDb == [SeededDb EXCEPT !.games = @ \cup {GameRow(g) : g \in SeasonGames}]

SeasonArgs == {Some("2023"), Some("2024"), Some("1999"), None}

InitRead ==
  Begin({FreshPool}, {NoSchemaDb, SeededDb, SeasonsDb}, Workers,
        [scopes |-> MaxScopes, calls |-> MaxCalls])

NextRead ==
  \E w \in Workers :
    \/ Enter(w, "none")
    \/ Exit(w, "none")
    \/ \E game_item \in SeasonGames : insert_game(w, game_item)
    \/ \E season \in SeasonArgs : get_id_games_by_season(w, season)

SpecRead == InitRead /\ [][NextRead]_vars

\* ------------------------------------------------------ reading the states

Writers ==
  {"insert_team", "insert_player", "insert_player_team_by_season",
   "insert_game", "insert_shot"}

\* What the connection sees after the step.
VisibleNext(c) == Merge(db', tx'[c])

\* The rows of the five tables, without the schema.
Rows(d) == [teams |-> d.teams, players |-> d.players, links |-> d.links,
            games |-> d.games, shots |-> d.shots]

\* A row with key k (a pair of table and key value) is stored in d.
HasKey(d, k) ==
  CASE k[1] = "teams"   -> k[2] \in Ids(d.teams)
    [] k[1] = "players" -> k[2] \in Ids(d.players)
    [] k[1] = "links"   -> k[2] \in {LinkKey(r) : r \in d.links}
    [] k[1] = "games"   -> k[2] \in Ids(d.games)
    [] k[1] = "shots"   -> k[2] \in Ids(d.shots)

\* The fields of an item that make up the key its writer checks.
KeyFields(op) ==
  CASE op = "insert_team"   -> {"id"}
    [] op = "insert_player" -> {"player_id"}
    [] op = "insert_player_team_by_season" ->
         {"player_id", "player_team_id", "season"}
    [] op = "insert_game"   -> {"game_id"}
    [] op = "insert_shot"   -> {"player_id", "game_id", "team_id"}

KeyPresent(op, item) == \A f \in KeyFields(op) : Get(item, f) # None

\* The rows of d that carry the key of the item written by op.
KeyRows(d, op, item) ==
  CASE op = "insert_team"   -> {r \in d.teams : r.id = Get(item, "id")}
    [] op = "insert_player" -> {r \in d.players : r.id = Get(item, "player_id")}
    [] op = "insert_player_team_by_season" ->
         {r \in d.links : /\ r.player_id = Get(item, "player_id")
                          /\ r.player_team_id = Get(item, "player_team_id")
                          /\ r.season = Get(item, "season")}
    [] op = "insert_game"   -> {r \in d.games : r.id = Get(item, "game_id")}

\* The item names a player, game or team (in field f) that d does not store.
Dangling(item, f, keys) == Get(item, f) # None /\ Get(item, f) \notin keys

\* PRIMARY KEY of teams, players, links and games: one row for a key.
UniqueKeys(d) ==
  /\ \A r, q \in d.teams : r.id = q.id => r = q
  /\ \A r, q \in d.players : r.id = q.id => r = q
  /\ \A r, q \in d.links : LinkKey(r) = LinkKey(q) => r = q
  /\ \A r, q \in d.games : r.id = q.id => r = q

\* REFERENCES of links, games and shots: every reference that is not NULL
\* names a stored row.
RefIntegrity(d) ==
  /\ \A l \in d.links : /\ l.player_id \in Ids(d.players)
                         /\ l.player_team_id \in Ids(d.teams)
  /\ \A g \in d.games : /\ g.home_team_id \in {None} \cup Ids(d.teams)
                         /\ g.away_team_id \in {None} \cup Ids(d.teams)
  /\ \A h \in d.shots : /\ h.player_id \in Ids(d.players)
                         /\ h.game_id \in Ids(d.games)
                         /\ h.team_id \in Ids(d.teams)

\* The step just taken is a call of a writer in Ops, on the connection c.
Wrote(Ops) == last'.op \in Ops /\ mgr[last'.w].conn # None

\* ---------------------------------------------------------------- claims

\* C1: after __exit__ of a scope that was entered, however it ends, the
\* connection the scope checked out is no longer in use: it is back in the pool.
C1_ReleasedOnEveryExit ==
  last.op = "exit" => last.conn \cap POOL.used = {}

\* C2: a scope that ends with no failure escaping it has every write accepted
\* inside it stored in the committed database; a scope that a failure escapes
\* leaves the committed database as it was.
C2_CommitOrRollback ==
  [][last'.op = "exit" =>
       /\ last'.res = "ok" =>
            \A k \in accepted[last'.w] : HasKey(db', k)
       /\ last'.inexc # "none" => db' = db]_vars

\* C3: a scope in which some writer hit a hard failure commits no row, whether
\* or not the caller caught the failure and went on writing.
C3_NoPartialWrites ==
  [][last'.op = "exit" /\ hard[last'.w] => Rows(db') = Rows(db)]_vars

\* C4: on abnormal exit the caller of the scope receives the failure that was
\* raised inside the scope, also when a driver call in __exit__ fails.
C4_OriginalFailure ==
  last.op = "exit" /\ last.inexc # "none" => last.err = last.inexc

\* C5: a Team, Player or RosterSeasonLink write whose record carries every key
\* field (the tables exist, a link's player and team are stored) raises
\* nothing and leaves exactly one row with its key; a row that had the key
\* before keeps its values.  So two writes of one key leave one row, the first.
C5_FirstWriterWins ==
  [][Wrote({"insert_team", "insert_player", "insert_player_team_by_season"}) =>
       LET op   == last'.op
           item == last'.item
           c    == Conn(last'.w)
       IN (/\ KeyPresent(op, item)
           /\ Visible(c).schema = TableNames
           /\ op = "insert_player_team_by_season" =>
                /\ Get(item, "player_id") \in Ids(Visible(c).players)
                /\ Get(item, "player_team_id") \in Ids(Visible(c).teams))
          => /\ last'.err = "none"
             /\ Cardinality(KeyRows(VisibleNext(c), op, item)) = 1
             /\ KeyRows(Visible(c), op, item) \subseteq
                  KeyRows(VisibleNext(c), op, item)]_vars

C7_ShotAppendOnly ==
  [][/\ Wrote({"insert_shot"}) =>
          LET item == last'.item
              c    == Conn(last'.w)
          IN (/\ Visible(c).schema = TableNames
              /\ Get(item, "player_id") \in Ids(Visible(c).players)
              /\ Get(item, "game_id") \in Ids(Visible(c).games)
              /\ Get(item, "team_id") \in Ids(Visible(c).teams))
             => /\ last'.err = "none"
                /\ \E r \in VisibleNext(c).shots :
                     /\ r.id \notin Ids(Visible(c).shots)
                     /\ VisibleNext(c).shots = Visible(c).shots \cup {r}
                     /\ [f \in DOMAIN r \ {"id"} |-> r[f]] = ShotVals(item)
     /\ last'.op = "exit" =>
          LET new == db'.shots \ db.shots
          IN /\ db.shots \subseteq db'.shots
             /\ Cardinality(Ids(new)) = Cardinality(new)
             /\ \A r \in new : <<"shots", r.id>> \in accepted[last'.w]]_vars

\* C7 witness: the scope has just stored a shot and sees two rows that differ
\* in nothing but their id.
C7_Witness ==
  /\ last.op = "insert_shot" /\ last.res = "ok"
  /\ \E r, q \in Visible(Conn(last.w)).shots :
        /\ r.id # q.id
        /\ [f \in DOMAIN r \ {"id"} |-> r[f]] = [f \in DOMAIN q \ {"id"} |-> q[f]]

\* C8: a writer called on a record that lacks a field of its key stores
\* nothing, raises nothing and rolls nothing back: the transaction, the
\* database and the with-block go on as they were.  And a scope with no hard
\* failure that exits normally commits every write it accepted.
C8_MissingKeyIsSoft ==
  [][/\ Wrote(Writers) /\ ~KeyPresent(last'.op, last'.item) =>
          /\ last'.err = "none"
          /\ pc' = pc /\ exc' = exc
          /\ tx' = tx /\ db' = db /\ shot_seq' = shot_seq
     /\ last'.op = "exit" /\ last'.res = "ok" /\ ~hard[last'.w] =>
          \A k \in accepted[last'.w] : HasKey(db', k)]_vars

\* C8 witness: a record without its key field was just skipped in a scope
\* whose earlier write is still pending in the transaction.
C8_Witness ==
  /\ last.op \in Writers /\ ~KeyPresent(last.op, last.item)
  /\ accepted[last.w] # {}
  /\ tx[Conn(last.w)] # NoTx
  /\ pc[last.w] = "body"

\* C9: a roster link, game or shot that names a player, game or team that is
\* not stored (and passes the writer's key check, on existing tables) raises
\* ForeignKeyViolation to the caller, stores no row and leaves the
\* transaction rolled back, so nothing of it is there when the scope ends.
C9_ForeignKeyRaises ==
  [][Wrote({"insert_player_team_by_season", "insert_game", "insert_shot"}) =>
       LET op   == last'.op
           item == last'.item
           c    == Conn(last'.w)
           vis  == Visible(c)
           violates ==
             CASE op = "insert_player_team_by_season" ->
                    /\ TruthyInt(Get(item, "player_id"))
                    /\ TruthyStr(Get(item, "player_team_id"))
                    /\ TruthyStr(Get(item, "season"))
                    /\ KeyRows(vis, op, item) = {}
                    /\ \/ Dangling(item, "player_id", Ids(vis.players))
                       \/ Dangling(item, "player_team_id", Ids(vis.teams))
               [] op = "insert_game" ->
                    /\ TruthyInt(Get(item, "game_id"))
                    /\ \/ Dangling(item, "home_team_id", Ids(vis.teams))
                       \/ Dangling(item, "away_team_id", Ids(vis.teams))
               [] op = "insert_shot" ->
                    /\ TruthyInt(Get(item, "player_id"))
                    /\ TruthyInt(Get(item, "game_id"))
                    /\ TruthyStr(Get(item, "team_id"))
                    /\ \/ Dangling(item, "player_id", Ids(vis.players))
                       \/ Dangling(item, "game_id", Ids(vis.games))
                       \/ Dangling(item, "team_id", Ids(vis.teams))
       IN vis.schema = TableNames /\ violates
          => /\ last'.err = "ForeignKeyViolation"
             /\ pc'[last'.w] = "raised" /\ exc'[last'.w] = "ForeignKeyViolation"
             /\ tx'[c] = NoTx /\ db' = db
             /\ Rows(VisibleNext(c)) = Rows(db)]_vars

\* C9 witness: a shot naming the missing game 9 was just refused in a scope
\* that had stored a row before; the transaction is empty again.
C9_Witness ==
  /\ last.op = "insert_shot" /\ last.err = "ForeignKeyViolation"
  /\ Get(last.item, "game_id") = Some(9)
  /\ accepted[last.w] # {}
  /\ tx[Conn(last.w)] = NoTx

\* C10: create_tables raises nothing and leaves the rows of the five tables,
\* committed and pending, as they were, on any schema and however often.
C10_CreateTablesKeepsRows ==
  [][Wrote({"create_tables"}) =>
       /\ last'.err = "none"
       /\ Rows(db') = Rows(db)
       /\ Rows(VisibleNext(Conn(last'.w))) = Rows(Visible(Conn(last'.w)))
       /\ VisibleNext(Conn(last'.w)).schema = TableNames]_vars

\* C10 witness: create_tables was just called, after an earlier call, on an
\* existing schema that holds committed rows and rows pending in the scope.
C10_Witness ==
  /\ last.op = "create_tables" /\ last.res = "ok"
  /\ calls >= 2
  /\ db.schema = TableNames /\ db.teams # {}
  /\ tx[Conn(last.w)].players # {}

\* ------------------------------------------------- the pool, two threads
Threads == {"w1", "w2"}

\* The pool while n other threads of the process stay inside their with-blocks:
\* the first took the idle connection, each further one a new connection.
BusyPool(n) == [idle |-> {}, used |-> 1..n, closed |-> FALSE]

InitPool ==
  Begin({FreshPool, BusyPool(maxconn - 2), BusyPool(maxconn - 1)}, {EmptyDb},
        Threads, [scopes |-> MaxScopes, calls |-> MaxCalls])

NextPool ==
  \E w \in Threads :
    \/ \E fail \in {"none", "autocommit", "cursor"} : Enter(w, fail)
    \/ BodyRaise(w)
    \/ \E fail \in {"none", "close", "commit", "rollback"} : Exit(w, fail)
    \/ close_pool(w)

SpecPool == InitPool /\ [][NextPool]_vars

\* ------------------------------------------------ two threads that write
\* The records two threads write at once: of one key with different values,
\* and naming a team, player or game that is not stored.
ConcTeams == {t \in TeamItems : Get(t, "id") = Some("LAL")}

ConcPlayers == {p \in PlayerItems : Get(p, "player_id") = Some(1)}

ConcLinks == {l \in LinkItems : Get(l, "season") = Some("2023")}

ConcGames == {g \in GameItems : TruthyInt(Get(g, "game_id"))}

ConcShots == {Shot1, [Shot1 EXCEPT !.game_id = Some(9)]}

InitConc ==
  Begin({FreshPool}, {EmptyDb, SeededDb}, Threads,
        [scopes |-> MaxScopes, calls |-> MaxCalls - 1])

NextConc ==
  \E w \in Threads :
    \/ Enter(w, "none")
    \/ \E fail \in {"none", "commit"} : Exit(w, fail)
    \/ \E team_item \in ConcTeams : insert_team(w, team_item)
    \/ \E player_item \in ConcPlayers : insert_player(w, player_item)
    \/ \E player_item \in ConcLinks : insert_player_team_by_season(w, player_item)
    \/ \E game_item \in ConcGames : insert_game(w, game_item)
    \/ \E shot_item \in ConcShots : insert_shot(w, shot_item)

SpecConc == InitConc /\ [][NextConc]_vars

\* C11: a call of get_id_games_by_season in a database that has the games
\* table returns, without raising and without changing any row, a list with no
\* id twice that holds the ids of exactly the games the scope sees stored with
\* the season passed; when no game has that season (or None is passed) the
\* list is empty.
C11_GameIdsOfSeason ==
  [][(/\ last'.op = "get_id_games_by_season"
      /\ "games_table" \in Visible(Conn(last'.w)).schema)
     => LET ids == last'.ret
            season == last'.item.season
            stored == {g \in Visible(Conn(last'.w)).games : g.season = season}
        IN /\ last'.res = "ok"
           /\ \A i, j \in DOMAIN ids : i # j => ids[i] # ids[j]
           /\ season # None => {Some(ids[i]) : i \in DOMAIN ids} = Ids(stored)
           /\ stored = {} => ids = <<>>
           /\ db' = db /\ tx' = tx]_vars

\* The read has returned two ids of its season while a game of another season
\* is stored.
C11_Witness ==
  /\ last.op = "get_id_games_by_season"
  /\ last.res = "ok"
  /\ Len(last.ret) = 2
  /\ \E g \in db.games : g.season # None /\ g.season # last.item.season

\* C12: entering a with-block never raises for want of a free connection: with
\* maxconn connections checked out, the entry waits instead.
C12_CheckoutWaits ==
  [][(last'.op = "enter" /\ ~POOL.closed) => last'.err # "PoolError"]_vars

\* C13: close_pool() on a pool that is closed already raises nothing and
\* leaves the pool as it is.
C13_ClosePoolIdempotent ==
  [][(last'.op = "close_pool" /\ POOL.closed)
     => (last'.res = "ok" /\ POOL' = POOL)]_vars

\* C14: two threads inside their with-blocks never hold the same connection,
\* the connection of a thread inside its with-block is checked out and not
\* idle, and at most maxconn connections are checked out.
C14_ExclusiveOwnership ==
  /\ \A w, v \in DOMAIN pc :
       (w # v /\ pc[w] # "out" /\ pc[v] # "out") => mgr[w].conn # mgr[v].conn
  /\ \A w \in DOMAIN pc :
       pc[w] # "out" => (Conn(w) \in POOL.used /\ Conn(w) \notin POOL.idle)
  /\ Cardinality(POOL.used) <= maxconn

\* Two threads are inside their with-blocks at once and the pool has all its
\* maxconn connections checked out.
C14_Witness ==
  /\ pc["w1"] # "out"
  /\ "w2" \in DOMAIN pc /\ pc["w2"] # "out"
  /\ Cardinality(POOL.used) = maxconn

\* C17: an entry that fails after getconn() leaves the number of connections
\* checked out as it was.
C17_FailedEntryReturns ==
  [][(last'.op = "enter" /\ last'.err \in {"AutocommitError", "CursorError"})
     => Cardinality(POOL'.used) = Cardinality(POOL.used)]_vars

\* C16 as stated: in __exit__ the commit (on normal exit) or the rollback (on
\* abnormal exit) is called before the cursor is closed.
C16_CommitThenClose ==
  [][last'.op = "exit" =>
       \A i, j \in DOMAIN last'.ret :
          (/\ last'.ret[i] \in {"conn.commit", "conn.rollback"}
           /\ last'.ret[j] = "cur.close") => i < j]_vars

\* C16, amended: __exit__ closes the cursor first, then commits (normal exit)
\* or rolls back (abnormal exit), then returns the connection to the pool; a
\* call that raises ends the sequence, so a failing cursor close leaves the
\* transaction neither committed nor rolled back and the connection checked
\* out, and a commit is stored only after the cursor was closed.
C16_CloseThenCommit ==
  [][last'.op = "exit" =>
       LET full == <<"cur.close",
                     IF last'.inexc = "none" THEN "conn.commit" ELSE "conn.rollback",
                     "POOL.putconn">>
           n == Len(last'.ret)
           c == The(last'.conn)
       IN /\ n \in 1..3
          /\ last'.ret = SubSeq(full, 1, n)
          /\ n = 1 => /\ last'.err = "CloseError"
                      /\ db' = db /\ tx'[c] = tx[c] /\ POOL' = POOL
          /\ n = 2 => /\ last'.res = "raise"
                      /\ mgr'[last'.w].cur = "closed"
                      /\ db' = db /\ POOL' = POOL
          /\ n = 3 => /\ mgr'[last'.w].cur = "closed"
                      /\ c \notin POOL'.used
                      /\ db' = IF last'.inexc = "none" THEN Merge(db, tx[c]) ELSE db]_vars

\* A with-block that an exception escaped has ended: the cursor was closed,
\* then the rollback made, then the connection returned.
C16_Witness ==
  /\ last.op = "exit"
  /\ last.ret = <<"cur.close", "conn.rollback", "POOL.putconn">>
  /\ last.conn \cap POOL.used = {}

\* C18: a writer called with a record that carries every key field, whatever
\* the values, does not skip it as a record with a missing field.
C18_SkipsOnlyAbsentKey ==
  [][(Wrote(Writers) /\ KeyPresent(last'.op, last'.item))
     => last'.res # "skip"]_vars

\* C15: with two threads writing at once, a write raises nothing but the
\* foreign-key failure of a record naming a row that is not stored and the
\* failure that ends a deadlock, never a uniqueness violation; the
\* committed tables never hold two rows of one key; a commit leaves the
\* committed Team, Player and RosterSeasonLink rows as they were and adds only
\* rows its own scope wrote; and after a commit each Game the scope wrote is
\* stored with that scope's values: the last committer's.
C15_ConflictClauseResolves ==
  [][/\ (Wrote(Writers) /\ last'.res = "raise")
          => last'.err \in {"ForeignKeyViolation", "DeadlockDetected"}
     /\ UniqueKeys(db')
     /\ (last'.op = "exit" /\ last'.res = "ok")
          => LET t == tx[The(last'.conn)]
             IN /\ db.teams \subseteq db'.teams
                /\ db'.teams \subseteq db.teams \cup t.teams
                /\ db.players \subseteq db'.players
                /\ db'.players \subseteq db.players \cup t.players
                /\ db.links \subseteq db'.links
                /\ db'.links \subseteq db.links \cup t.links
                /\ t.games \subseteq db'.games]_vars

\* Two threads were inside their with-blocks at once, both wrote the team
\* "LAL" into a database that had no team, and both have committed, the second
\* just now: one row of that key is stored.
C15_Witness ==
  /\ last.op = "exit" /\ last.res = "ok" /\ last.w = "w2"
  /\ "w1" \in overlap["w2"]
  /\ pc["w1"] = "out" /\ ~hard["w1"] /\ ~hard["w2"]
  /\ <<"teams", Some("LAL")>> \in accepted["w1"] \cap accepted["w2"]
  /\ db.players = {}
  /\ Cardinality(db.teams) = 1

\* C19: no step removes a committed row of any of the five tables, and no
\* step changes or doubles a committed Team, Player, RosterSeasonLink (or
\* Shot) row; a committed Game keeps its id.
C19_CommittedRowsStay ==
  [][/\ \A r \in db.teams : {q \in db'.teams : q.id = r.id} = {r}
     /\ \A r \in db.players : {q \in db'.players : q.id = r.id} = {r}
     /\ \A r \in db.links : {q \in db'.links : LinkKey(q) = LinkKey(r)} = {r}
     /\ \A r \in db.shots : {q \in db'.shots : q.id = r.id} = {r}
     /\ \A r \in db.games : \E q \in db'.games : q.id = r.id]_vars

\* While another thread is inside its with-block, a thread has written the
\* team "LAL" under the name "LA" over the committed row named "Lakers".
C19_Witness ==
  /\ last.op = "insert_team" /\ last.res = "ok"
  /\ Get(last.item, "name") = Some("LA")
  /\ overlap[last.w] # {}
  /\ \E r \in db.teams : r.id = Some("LAL") /\ r.name = Some("Lakers")

\* C20: in the committed database every link names a stored player and a
\* stored team, every game's home and away team that is not NULL is stored, and
\* every shot names a stored player, game and team.
C20_ReferentialIntegrity == RefIntegrity(db)

\* Two threads have run at once and the committed database holds a link and a
\* shot.
C20_Witness ==
  /\ db.links # {} /\ db.shots # {}
  /\ \E w \in DOMAIN overlap : overlap[w] # {}


=============================================================================
